---- MODULE Spec2Model ----
(***************************************************************************)
(* nest-square: module registration (fromEnv / forRoot / forRootAsync),    *)
(* the environment configuration factory, and NestSquareService with its   *)
(* retry helper pRetryOrThrow and the operations built on it.              *)
(*                                                                         *)
(* Optional values (undefined in the source) are sequences of length 0 or  *)
(* 1: None is undefined, Some(v) is the defined value v.                   *)
(***************************************************************************)
EXTENDS Integers, Sequences, FiniteSets, TLC

VARIABLES
    env,        \* process.env restricted to the three SQUARE_* variables
    mode,       \* which static registration method the application called
    options,    \* forRoot's options / the value forRootAsync's useFactory yields
    providers,  \* injection token -> provider value (None until instantiated)
    bootPc,     \* "start", "registered", "ready", "failed"
    bootError,  \* why bootstrap failed (None when it did not)
    config,     \* NestSquareService.config (None until the constructor ran)
    call        \* per caller: the service operation in flight and its locals

vars == <<env, mode, options, providers, bootPc, bootError, config, call>>

None == <<>>
Some(v) == <<v>>

-----------------------------------------------------------------------------
(* Bounds and input sets                                                   *)

\* Pages the vendor serves before it must return a page with no cursor.
MaxPages == 3

Callers == {1}

\* Callers whose service calls may be in progress at the same time.
AllCallers == {1, 2}

\* Pages the vendor serves per listing when two callers run concurrently.
InterleavedMaxPages == 2

EnvNames ==
    {"SQUARE_CLIENT_ENVIRONMENT", "SQUARE_OAUTH_CLIENT_ID", "SQUARE_OAUTH_CLIENT_SECRET"}

\* A process.env entry is absent, or a string (possibly the empty string).
EnvValues == {None, Some(""), Some("x")}

OptionStrings == {"", "sandbox", "id", "secret"}

Modes == {"fromEnv", "forRoot", "forRootAsync"}

-----------------------------------------------------------------------------
(* nest-square.config.ts                                                   *)

NEST_SQUARE_CONFIG_INJECTION_KEY == "NEST_SQUARE_CONFIG"

\* The token the service constructor injects: @Inject("NEST_SQUARE_CONFIG").
ServiceInjectToken == "NEST_SQUARE_CONFIG"

\* registerAs(token, factory) publishes the factory under KEY = CONFIGURATION(token).
GetConfigToken(token) == "CONFIGURATION(" \o token \o ")"

NestSquareConfigKey == GetConfigToken("square")

\* @IsString() with skipMissingProperties: false: an absent variable is an error.
IsString(v) == v # None

\* validateSync(plainToClass(SquareConfigValidator, process.env)): the set of
\* properties that fail validation.
ValidateSync(e) == {n \in EnvNames : ~IsString(e[n])}

NestSquareConfigSwapped(e) ==
    IF ValidateSync(e) # {}
    THEN [threw |-> TRUE, value |-> None]
    ELSE [threw |-> FALSE,
          value |-> Some([clientEnvironment |-> e["SQUARE_CLIENT_ENVIRONMENT"][1],
                          oauthClientId     |-> e["SQUARE_OAUTH_CLIENT_SECRET"][1],
                          oauthClientSecret |-> e["SQUARE_OAUTH_CLIENT_ID"][1]])]

\* The factory passed to registerAs: throws on validation errors, otherwise
\* returns the record read from process.env.
NestSquareConfig(e) ==
    IF ValidateSync(e) # {}
    THEN [threw |-> TRUE, value |-> None]
    ELSE [threw |-> FALSE,
          value |-> Some([clientEnvironment |-> e["SQUARE_CLIENT_ENVIRONMENT"][1],
                          oauthClientId     |-> e["SQUARE_OAUTH_CLIENT_ID"][1],
                          oauthClientSecret |-> e["SQUARE_OAUTH_CLIENT_SECRET"][1]])]

-----------------------------------------------------------------------------
(* nest-square.module.ts                                                   *)

ConfigRecords ==
    [clientEnvironment : OptionStrings, oauthClientId : OptionStrings,
     oauthClientSecret : OptionStrings]

\* A caller with no service operation in flight.
IdleCall ==
    [op |-> "idle", pc |-> "idle", params |-> None, attemptNumber |-> 0,
     invocations |-> 0, lastError |-> None, request |-> None, response |-> None,
     result |-> None,
     error |-> None, client |-> None, cursor |-> None, catalogObjects |-> <<>>,
     theTypes |-> "", pages |-> <<>>, fileStream |-> <<>>]

\* ConfigModule.forFeature(NestSquareConfig) contributes one provider, under
\* the factory's KEY, not yet instantiated.
ForFeatureProviders == [t \in {NestSquareConfigKey} |-> None]

\* fromEnv(): imports ConfigModule.forFeature(NestSquareConfig); providers
\* [NestSquareService].
FromEnvProviders == ForFeatureProviders

\* Variant: forRoot also imports ConfigModule.forFeature(NestSquareConfig).
ForRootProvidersWithEnvConfig ==
    [t \in {NestSquareConfigKey, NEST_SQUARE_CONFIG_INJECTION_KEY} |-> None]

\* forRoot / forRootAsync: a provider under NEST_SQUARE_CONFIG_INJECTION_KEY
\* (useValue: options, or useFactory: options.useFactory).
ForRootProviders == [t \in {NEST_SQUARE_CONFIG_INJECTION_KEY} |-> None]

ForRootAsyncProviders == [t \in {NEST_SQUARE_CONFIG_INJECTION_KEY} |-> None]

FromEnv ==
    /\ bootPc = "start"
    /\ mode = "fromEnv"
    /\ providers' = FromEnvProviders
    /\ bootPc' = "registered"
    /\ UNCHANGED <<env, mode, options, bootError, config, call>>

ForRoot ==
    /\ bootPc = "start"
    /\ mode = "forRoot"
    /\ providers' = ForRootProviders
    /\ bootPc' = "registered"
    /\ UNCHANGED <<env, mode, options, bootError, config, call>>

ForRootAsync ==
    /\ bootPc = "start"
    /\ mode = "forRootAsync"
    /\ providers' = ForRootAsyncProviders
    /\ bootPc' = "registered"
    /\ UNCHANGED <<env, mode, options, bootError, config, call>>

\* The container instantiates the provider registered by forFeature: it runs
\* the NestSquareConfig factory; a throw aborts the bootstrap.
LoadEnvConfig ==
    /\ bootPc = "registered"
    /\ NestSquareConfigKey \in DOMAIN providers
    /\ providers[NestSquareConfigKey] = None
    /\ LET r == NestSquareConfig(env) IN
         IF r.threw
         THEN /\ bootPc' = "failed"
              /\ bootError' = Some("config validation error")
              /\ UNCHANGED providers
         ELSE /\ providers' = [providers EXCEPT ![NestSquareConfigKey] = r.value]
              /\ UNCHANGED <<bootPc, bootError>>
    /\ UNCHANGED <<env, mode, options, config, call>>

\* Variant: the provider yields a record of empty defaults, not the options.
ProvideDefaults ==
    /\ bootPc = "registered"
    /\ NEST_SQUARE_CONFIG_INJECTION_KEY \in DOMAIN providers
    /\ providers[NEST_SQUARE_CONFIG_INJECTION_KEY] = None
    /\ providers' = [providers EXCEPT ![NEST_SQUARE_CONFIG_INJECTION_KEY] =
                       Some([clientEnvironment |-> "", oauthClientId |-> "",
                             oauthClientSecret |-> ""])]
    /\ UNCHANGED <<env, mode, options, bootPc, bootError, config, call>>

\* The container instantiates the NEST_SQUARE_CONFIG provider of forRoot
\* (useValue) or forRootAsync (useFactory result).
ProvideOptions ==
    /\ bootPc = "registered"
    /\ NEST_SQUARE_CONFIG_INJECTION_KEY \in DOMAIN providers
    /\ providers[NEST_SQUARE_CONFIG_INJECTION_KEY] = None
    /\ providers' = [providers EXCEPT ![NEST_SQUARE_CONFIG_INJECTION_KEY] = Some(options)]
    /\ UNCHANGED <<env, mode, options, bootPc, bootError, config, call>>

\* The container instantiates NestSquareService: the constructor parameter is
\* resolved by its injection token; an unregistered token aborts the bootstrap
\* ("Nest can't resolve dependencies of the NestSquareService").
InstantiateService ==
    /\ bootPc = "registered"
    /\ IF ServiceInjectToken \in DOMAIN providers
       THEN /\ providers[ServiceInjectToken] # None
            /\ config' = providers[ServiceInjectToken]
            /\ bootPc' = "ready"
            /\ UNCHANGED bootError
       ELSE /\ bootPc' = "failed"
            /\ bootError' = Some("unresolved dependency")
            /\ UNCHANGED config
    /\ UNCHANGED <<env, mode, options, providers, call>>

BootInit ==
    /\ env \in [EnvNames -> EnvValues]
    /\ mode \in Modes
    /\ options \in ConfigRecords
    /\ providers = <<>>
    /\ bootPc = "start"
    /\ bootError = None
    /\ config = None
    /\ call = [p \in AllCallers |-> IdleCall]

BootNext ==
    \/ FromEnv
    \/ ForRoot
    \/ ForRootAsync
    \/ LoadEnvConfig
    \/ ProvideOptions
    \/ InstantiateService

BootSpec == BootInit /\ [][BootNext]_vars

-----------------------------------------------------------------------------
(* nest-square.service.ts: errors and the retry helper                     *)

\* HttpStatus.INTERNAL_SERVER_ERROR and HttpStatus.TOO_MANY_REQUESTS
INTERNAL_SERVER_ERROR == 500
TOO_MANY_REQUESTS == 429

\* p-retry's default options.retries
Retries == 10

StatusCodes == {400, 429, 499, 500, 501}

ApiError(status) == [type |-> "ApiError", statusCode |-> status, cause |-> None]

\* A failure that is no ApiError: a plain Error (e.g. a network error) or a
\* TypeError raised inside the wrapped function.
OtherErrors ==
    {[type |-> "Error", statusCode |-> 0, cause |-> None],
     [type |-> "TypeError", statusCode |-> 0, cause |-> None]}

\* A value that is no Error at all, which the wrapped function rejects with
\* (JavaScript lets a promise reject with anything, e.g. a string).
NonErrorValues == {[type |-> "NonError", statusCode |-> 0, cause |-> None]}

\* p-retry's replacement for such a value:
\* new TypeError(`Non-error was thrown: "${value}". You should only throw errors.`)
NonErrorWasThrown(value) ==
    [type |-> "TypeError", statusCode |-> 0, cause |-> Some(value)]

VendorErrors == {ApiError(s) : s \in StatusCodes} \cup OtherErrors \cup NonErrorValues

\* new InternalServerErrorException(error)
InternalServerErrorException(error) ==
    [type |-> "InternalServerErrorException", statusCode |-> 500, cause |-> Some(error)]

IsApiError(error) == error.type = "ApiError"

\* Variant: client errors (4xx) count as retryable too.
IsRetryableFromBadRequest(error) ==
    \/ error.statusCode >= 400
    \/ error.statusCode = TOO_MANY_REQUESTS

IsRetryable(error) ==
    \/ error.statusCode >= INTERNAL_SERVER_ERROR
    \/ error.statusCode = TOO_MANY_REQUESTS

\* Variant: the count is taken one attempt late.
RetriesLeftLate(attemptNumber) == Retries - (attemptNumber - 2)

\* p-retry decorates the error of attempt n with retriesLeft = retries - (n - 1).
RetriesLeft(attemptNumber) == Retries - (attemptNumber - 1)

\* Variant: the status is not consulted, only the retries left.
OnFailedAttemptIgnoresStatus(error, retriesLeft) ==
    IF IsApiError(error)
    THEN IF retriesLeft = 0
         THEN Some(InternalServerErrorException(error))
         ELSE None
    ELSE Some(error)

\* Variant: the ApiError is rethrown as it is.
OnFailedAttemptRethrows(error, retriesLeft) ==
    IF IsApiError(error)
    THEN IF ~IsRetryable(error) \/ retriesLeft = 0
         THEN Some(error)
         ELSE None
    ELSE Some(error)

\* Variant: whatever the error, the wrapper is thrown.
OnFailedAttemptWrapsAll(error, retriesLeft) ==
    IF IsApiError(error)
    THEN IF ~IsRetryable(error) \/ retriesLeft = 0
         THEN Some(InternalServerErrorException(error))
         ELSE None
    ELSE Some(InternalServerErrorException(error))

\* The onFailedAttempt callback: Some(e) when it throws e, None when it returns.
OnFailedAttempt(error, retriesLeft) ==
    IF IsApiError(error)
    THEN IF ~IsRetryable(error) \/ retriesLeft = 0
         THEN Some(InternalServerErrorException(error))
         ELSE None
    ELSE Some(error)

\* p-retry's handling of a rejected attempt: a value that is no Error is
\* replaced by a TypeError and rejects at once; a TypeError (not a network
\* error) stops at once; otherwise onFailedAttempt runs and what it throws
\* rejects the promise; otherwise the operation retries while retries are
\* left. Some(e): pRetry rejects with e. None: another attempt is scheduled.
PRetryCatch(error, attemptNumber) ==
    IF error.type = "NonError"
    THEN Some(NonErrorWasThrown(error))
    ELSE IF error.type = "TypeError"
    THEN Some(error)
    ELSE LET thrown == OnFailedAttempt(error, RetriesLeft(attemptNumber)) IN
         IF thrown # None THEN thrown
         ELSE IF RetriesLeft(attemptNumber) <= 0 THEN Some(error)
         ELSE None

-----------------------------------------------------------------------------
(* nest-square.service.ts: the operations                                  *)

AccessTokens == {"tok"}
ClientFns == {"createOrder"}
Codes == {"code"}
CatalogTypes == {<<"ITEM">>, <<"ITEM", "CATEGORY">>}
Files == {[buffer |-> <<1, 2>>, mimetype |-> "image/png"]}

\* What the vendor may put in a listCatalog page.
PageObjects == {None, Some(<<"a">>), Some(<<"b", "c">>)}
Cursors == {"", "c1"}

\* Variant: the environment is fixed instead of read from the configuration.
ClientProduction(accessToken) ==
    [accessToken |-> accessToken, environment |-> "production"]

\* client(params): a new Client with the given access token and the
\* configured environment.
Client(accessToken) ==
    [accessToken |-> accessToken, environment |-> config[1].clientEnvironment]

\* types.join(",")
RECURSIVE Join(_)
Join(types) ==
    IF types = <<>> THEN ""
    ELSE IF Len(types) = 1 THEN types[1]
    ELSE types[1] \o "," \o Join(Tail(types))

\* The SDK call one invocation of the wrapped function makes.
Request(c) ==
    CASE c.op = "retryOrThrow" ->
           [api |-> "clientFn", client |-> Client(Some(c.params.accessToken)),
            args |-> <<c.params.clientFn>>]
      [] c.op = "retryObtainTokenOrThrow" ->
           [api |-> "obtainToken", client |-> Client(None),
            args |-> [clientId |-> config[1].oauthClientId,
                      clientSecret |-> config[1].oauthClientSecret,
                      grantType |-> "authorization_code",
                      code |-> c.params.code]]
      [] c.op = "retryRefreshTokenOrThrow" ->
           [api |-> "obtainToken", client |-> Client(None),
            args |-> [clientId |-> config[1].oauthClientId,
                      clientSecret |-> config[1].oauthClientSecret,
                      grantType |-> "refresh_token",
                      refreshToken |-> c.params.refreshToken]]
      [] c.op = "accumulateCatalogOrThrow" ->
           [api |-> "listCatalog", client |-> c.client[1],
            args |-> <<c.cursor, c.theTypes>>]
      [] c.op = "uploadCatalogImageOrThrow" ->
           [api |-> "createCatalogImage", client |-> Client(Some(c.params.accessToken)),
            args |-> [idempotencyKey |-> c.params.idempotencyKey,
                      imageId |-> "#" \o c.params.id,
                      contentType |-> c.params.file.mimetype,
                      \* the request body is read from the one Readable
                      body |-> c.fileStream]]

\* One invocation of the wrapped function fn by p-retry (attempt n): the SDK
\* request goes out and its promise is pending. An upload drains fileStream.
Invoke(c, n) ==
    [c EXCEPT !.pc = "inflight",
              !.attemptNumber = n,
              !.invocations = @ + 1,
              !.request = Some(Request(c)),
              !.fileStream = IF c.op = "uploadCatalogImageOrThrow" THEN <<>> ELSE @]

\* pRetryOrThrow(fn): pRetry starts a fresh operation and makes attempt 1 at once.
PRetryOrThrow(c) ==
    Invoke([c EXCEPT !.invocations = 0, !.lastError = None, !.response = None], 1)

\* A service method was called: its locals before the first pRetryOrThrow.
NewCall(op, params) == [IdleCall EXCEPT !.op = op, !.params = params]

\* What the vendor may answer to the request in flight.
VendorResponses(c) ==
    CASE c.op = "retryOrThrow" -> {"order1", "order2"}
      [] c.op \in {"retryObtainTokenOrThrow", "retryRefreshTokenOrThrow"} ->
           {[result |-> "token"]}
      [] c.op = "accumulateCatalogOrThrow" ->
           {[result |-> [objects |-> o, cursor |-> k]] :
              o \in PageObjects,
              k \in {None} \cup (IF Len(c.pages) + 1 < MaxPages
                                 THEN {Some(x) : x \in Cursors} ELSE {})}
      [] c.op = "uploadCatalogImageOrThrow" -> {[result |-> "image"]}
      \* no request is in flight
      [] OTHER -> {}

ServiceReady(p) == bootPc = "ready" /\ call[p].pc = "idle"

\* The public client(params) method: synchronous, it returns the new Client.
ClientCall(p, accessToken) ==
    /\ ServiceReady(p)
    /\ call' = [call EXCEPT ![p] =
         [NewCall("client", [accessToken |-> accessToken])
            EXCEPT !.pc = "resolved", !.result = Some(Client(accessToken))]]
    /\ UNCHANGED <<env, mode, options, providers, bootPc, bootError, config>>

RetryOrThrow(p, accessToken, clientFn) ==
    /\ ServiceReady(p)
    /\ call' = [call EXCEPT ![p] =
         PRetryOrThrow(NewCall("retryOrThrow",
                               [accessToken |-> accessToken, clientFn |-> clientFn]))]
    /\ UNCHANGED <<env, mode, options, providers, bootPc, bootError, config>>

RetryObtainTokenOrThrow(p, code) ==
    /\ ServiceReady(p)
    /\ call' = [call EXCEPT ![p] =
         PRetryOrThrow(NewCall("retryObtainTokenOrThrow", [code |-> code]))]
    /\ UNCHANGED <<env, mode, options, providers, bootPc, bootError, config>>

RetryRefreshTokenOrThrow(p, refreshToken) ==
    /\ ServiceReady(p)
    /\ call' = [call EXCEPT ![p] =
         PRetryOrThrow(NewCall("retryRefreshTokenOrThrow",
                               [refreshToken |-> refreshToken]))]
    /\ UNCHANGED <<env, mode, options, providers, bootPc, bootError, config>>

\* Lines 144-152: the client is built once, the types are joined once, and the
\* first page is requested with no cursor.
AccumulateCatalogOrThrow(p, accessToken, types) ==
    /\ ServiceReady(p)
    /\ call' = [call EXCEPT ![p] =
         PRetryOrThrow(
           [NewCall("accumulateCatalogOrThrow",
                    [accessToken |-> accessToken, types |-> types])
              EXCEPT !.client = Some(Client(Some(accessToken))),
                     !.catalogObjects = <<>>,
                     !.theTypes = Join(types),
                     !.cursor = None])]
    /\ UNCHANGED <<env, mode, options, providers, bootPc, bootError, config>>

\* Lines 187-200: one Readable is filled with file.buffer before the retries.
UploadCatalogImageOrThrow(p, accessToken, file) ==
    /\ ServiceReady(p)
    /\ call' = [call EXCEPT ![p] =
         PRetryOrThrow(
           [NewCall("uploadCatalogImageOrThrow",
                    [accessToken |-> accessToken, idempotencyKey |-> "key",
                     id |-> "img", file |-> file])
              EXCEPT !.fileStream = file.buffer])]
    /\ UNCHANGED <<env, mode, options, providers, bootPc, bootError, config>>

\* result.objects ?? []
ObjectsOrEmpty(objects) == IF objects = None THEN <<>> ELSE objects[1]

\* Variant: the loop tests the cursor for truthiness, so "" ends it.
AccumulateContinueTruthy(c, response) ==
    LET got == [c EXCEPT !.catalogObjects = @ \o ObjectsOrEmpty(response.result.objects),
                         !.cursor = response.result.cursor,
                         !.pages = Append(@, response.result)]
    IN IF got.cursor # None /\ got.cursor # Some("")
       THEN PRetryOrThrow(got)
       ELSE [got EXCEPT !.pc = "resolved", !.result = Some(got.catalogObjects)]

\* Variant: a page's objects are put in front of those already accumulated.
AccumulateContinueUnshift(c, response) ==
    LET got == [c EXCEPT !.catalogObjects = ObjectsOrEmpty(response.result.objects) \o @,
                         !.cursor = response.result.cursor,
                         !.pages = Append(@, response.result)]
    IN IF got.cursor # None
       THEN PRetryOrThrow(got)
       ELSE [got EXCEPT !.pc = "resolved", !.result = Some(got.catalogObjects)]

\* The continuation of accumulateCatalogOrThrow after a page arrived (lines
\* 153-164): append the page's objects, take its cursor, and either fetch the
\* next page with that cursor or return what was accumulated.
AccumulateContinue(c, response) ==
    LET got == [c EXCEPT !.catalogObjects = @ \o ObjectsOrEmpty(response.result.objects),
                         !.cursor = response.result.cursor,
                         !.pages = Append(@, response.result)]
    IN IF got.cursor # None
       THEN PRetryOrThrow(got)
       ELSE [got EXCEPT !.pc = "resolved", !.result = Some(got.catalogObjects)]

\* Variant: the resolved value is dropped.
ContinueWithoutValue(c, response) ==
    CASE c.op = "accumulateCatalogOrThrow" -> AccumulateContinue(c, response)
      [] c.op = "uploadCatalogImageOrThrow" ->
           [c EXCEPT !.pc = "resolved", !.result = Some(response.result)]
      [] OTHER -> [c EXCEPT !.pc = "resolved", !.result = None]

\* What the operation does with the value pRetryOrThrow resolved with.
Continue(c, response) ==
    CASE c.op = "accumulateCatalogOrThrow" -> AccumulateContinue(c, response)
      [] c.op = "uploadCatalogImageOrThrow" ->
           [c EXCEPT !.pc = "resolved", !.result = Some(response.result)]
      [] OTHER -> [c EXCEPT !.pc = "resolved", !.result = Some(response)]

\* The attempt in flight succeeds: pRetry resolves with the value and the
\* operation continues.
AttemptFulfilledWith(p, response) ==
    /\ call[p].pc = "inflight"
    /\ call' = [call EXCEPT ![p] =
         Continue([call[p] EXCEPT !.response = Some(response)], response)]
    /\ UNCHANGED <<env, mode, options, providers, bootPc, bootError, config>>

AttemptFulfilled(p) ==
    \E response \in VendorResponses(call[p]) : AttemptFulfilledWith(p, response)

\* The attempt in flight fails with error: p-retry's catch block runs
\* onFailedAttempt and either rejects or schedules the next attempt.
AttemptRejectedWith(p, error) ==
    /\ call[p].pc = "inflight"
    /\ LET rejection == PRetryCatch(error, call[p].attemptNumber) IN
         call' = [call EXCEPT ![p] =
           IF rejection # None
           THEN [call[p] EXCEPT !.pc = "rejected", !.lastError = Some(error),
                                !.error = rejection]
           ELSE [call[p] EXCEPT !.pc = "backoff", !.lastError = Some(error)]]
    /\ UNCHANGED <<env, mode, options, providers, bootPc, bootError, config>>

AttemptRejected(p) ==
    \E error \in VendorErrors : AttemptRejectedWith(p, error)

\* The retry timer fires: p-retry invokes the wrapped function again.
RetryAttempt(p) ==
    /\ call[p].pc = "backoff"
    /\ call' = [call EXCEPT ![p] = Invoke(call[p], call[p].attemptNumber + 1)]
    /\ UNCHANGED <<env, mode, options, providers, bootPc, bootError, config>>

\* The caller takes the settled promise; it may call the service again.
Return(p) ==
    /\ call[p].pc \in {"resolved", "rejected"}
    /\ call' = [call EXCEPT ![p] = IdleCall]
    /\ UNCHANGED <<env, mode, options, providers, bootPc, bootError, config>>

\* Registrations the service is run under: static options, and an async
\* factory that yielded empty strings.
Registrations ==
    {<<"forRoot", [clientEnvironment |-> "sandbox", oauthClientId |-> "id",
                   oauthClientSecret |-> "secret"]>>,
     <<"forRootAsync", [clientEnvironment |-> "", oauthClientId |-> "",
                        oauthClientSecret |-> ""]>>}

\* The state after construction by forRoot or forRootAsync: the service holds
\* the supplied options.
Init ==
    /\ env = [n \in EnvNames |-> None]
    /\ \E r \in Registrations : mode = r[1] /\ options = r[2]
    /\ providers = [t \in {NEST_SQUARE_CONFIG_INJECTION_KEY} |-> Some(options)]
    /\ bootPc = "ready"
    /\ bootError = None
    /\ config = Some(options)
    /\ call = [p \in AllCallers |-> IdleCall]

Next ==
    \/ \E p \in Callers, t \in {None} \cup {Some(a) : a \in AccessTokens} :
         ClientCall(p, t)
    \/ \E p \in Callers, t \in AccessTokens, f \in ClientFns : RetryOrThrow(p, t, f)
    \/ \E p \in Callers, c \in Codes : RetryObtainTokenOrThrow(p, c)
    \/ \E p \in Callers, c \in Codes : RetryRefreshTokenOrThrow(p, c)
    \/ \E p \in Callers, t \in AccessTokens, ts \in CatalogTypes :
         AccumulateCatalogOrThrow(p, t, ts)
    \/ \E p \in Callers, t \in AccessTokens, f \in Files :
         UploadCatalogImageOrThrow(p, t, f)
    \/ \E p \in Callers : AttemptFulfilled(p)
    \/ \E p \in Callers : AttemptRejected(p)
    \/ \E p \in Callers : RetryAttempt(p)
    \/ \E p \in Callers : Return(p)

\* One step of caller p's operation in flight.
CallStep(p) == AttemptFulfilled(p) \/ AttemptRejected(p) \/ RetryAttempt(p)

\* Every SDK request is eventually answered and every retry timer fires.
FairSpec == Init /\ [][Next]_vars /\ \A p \in Callers : WF_vars(CallStep(p))

Spec == Init /\ [][Next]_vars

\* Two callers use the one service concurrently; the vendor's answers are
\* drawn from smaller sets: one value per call, one failure that is retried
\* and one that is not.
InterleavedErrors == {ApiError(400), ApiError(500)}

InterleavedResponses(c) ==
    CASE c.op = "retryOrThrow" -> {"order1"}
      [] c.op = "accumulateCatalogOrThrow" ->
           {[result |-> [objects |-> Some(<<"a">>), cursor |-> k]] :
              k \in {None} \cup (IF Len(c.pages) + 1 < InterleavedMaxPages
                                 THEN {Some("c1")} ELSE {})}
      [] OTHER -> VendorResponses(c)

InterleavedNext ==
    \E p \in AllCallers :
      \/ ClientCall(p, Some("tok"))
      \/ RetryOrThrow(p, "tok", "createOrder")
      \/ RetryObtainTokenOrThrow(p, "code")
      \/ RetryRefreshTokenOrThrow(p, "code")
      \/ AccumulateCatalogOrThrow(p, "tok", <<"ITEM">>)
      \/ \E f \in Files : UploadCatalogImageOrThrow(p, "tok", f)
      \/ \E response \in InterleavedResponses(call[p]) : AttemptFulfilledWith(p, response)
      \/ \E error \in InterleavedErrors : AttemptRejectedWith(p, error)
      \/ RetryAttempt(p)
      \/ Return(p)

InterleavedSpec == Init /\ [][InterleavedNext]_vars

-----------------------------------------------------------------------------
(* Properties of the retry helper                                          *)

\* The step re-invokes the wrapped function within one pRetryOrThrow call.
InvokedAgain(p) ==
    /\ call[p].invocations >= 1
    /\ call'[p].invocations = call[p].invocations + 1

\* The step is the failure of the attempt in flight with an ApiError whose
\* status is neither >= 500 nor 429.
FailedNotRetryable(p) ==
    /\ call[p].pc = "inflight"
    /\ call'[p].lastError # None
    /\ call'[p].pc # "inflight"
    /\ call'[p].lastError[1].type = "ApiError"
    /\ call'[p].lastError[1].statusCode < 500
    /\ call'[p].lastError[1].statusCode # 429

C1Step ==
    \A p \in Callers :
      /\ InvokedAgain(p) =>
           /\ call[p].lastError # None
           /\ call[p].lastError[1].type = "ApiError"
           /\ \/ call[p].lastError[1].statusCode >= 500
              \/ call[p].lastError[1].statusCode = 429
      /\ FailedNotRetryable(p) => call'[p].pc = "rejected"
      /\ call[p].pc = "rejected" => call'[p].invocations <= call[p].invocations

\* C1: pRetryOrThrow invokes the wrapped function again only if the
\* immediately preceding attempt failed with an ApiError whose statusCode is
\* >= 500 or equal to 429; an ApiError with any other status ends the
\* operation right after that attempt, and a rejected operation makes no
\* further invocation.
C1_RetryOnlyAfterRetryableApiError == [][C1Step]_vars

\* C1 witness: a second attempt is in flight after a 429.
C1_Witness ==
    \E p \in Callers :
      /\ call[p].pc = "inflight"
      /\ call[p].invocations = 2
      /\ call[p].lastError = Some(ApiError(429))

\* A failure was retried: another attempt is scheduled or was made after it.
Retried(p) ==
    /\ call[p].lastError # None
    /\ call[p].pc \in {"backoff", "inflight", "resolved"}

C3_EveryRejectionWrapped ==
    \A p \in Callers :
      call[p].pc = "rejected" =>
        /\ call[p].error[1].type = "InternalServerErrorException"
        /\ call[p].error[1].cause = call[p].lastError

\* C3 amended: whenever pRetryOrThrow gives up on an ApiError, because the
\* last permitted retry failed or because its status is not retryable, the
\* caller receives an InternalServerErrorException wrapping that ApiError.
C3_ApiErrorRejectionWrapped ==
    \A p \in Callers :
      (call[p].pc = "rejected" /\ call[p].lastError[1].type = "ApiError") =>
        /\ call[p].error[1].type = "InternalServerErrorException"
        /\ call[p].error[1].cause = call[p].lastError

\* C3 witness: the last permitted retry failed with a retryable ApiError and
\* the caller got the wrapper.
C3_Witness ==
    \E p \in Callers :
      /\ call[p].pc = "rejected"
      /\ call[p].invocations = 11
      /\ call[p].lastError = Some(ApiError(501))
      /\ call[p].error[1].type = "InternalServerErrorException"

C4State ==
    \A p \in Callers :
      call[p].op = "retryOrThrow" =>
        /\ call[p].invocations <= 1 + 10
        /\ call[p].invocations = 1 + 10 => call[p].pc # "backoff"
        /\ call[p].pc = "backoff" => call[p].invocations <= 10

RetryOrThrowRunning(p) ==
    call[p].op = "retryOrThrow" /\ call[p].pc \in {"inflight", "backoff"}

\* C4: retryOrThrow invokes the wrapped function at most 1 + 10 times, and
\* when the last of them fails the promise is rejected, no retry being
\* scheduled after it; every retryOrThrow in progress ends, resolved or
\* rejected.
C4_AtMostElevenInvocations ==
    /\ []C4State
    /\ \A p \in Callers : RetryOrThrowRunning(p) ~> ~RetryOrThrowRunning(p)

\* C4 witness: all eleven attempts of a retryOrThrow failed and it rejected.
C4_Witness ==
    \E p \in Callers :
      /\ call[p].op = "retryOrThrow"
      /\ call[p].invocations = 11
      /\ call[p].pc = "rejected"

C5Step ==
    \A p \in Callers :
      /\ (call[p].op = "retryOrThrow" /\ call[p].pc = "inflight"
            /\ call'[p].response # None) =>
           /\ call'[p].pc = "resolved"
           /\ call'[p].result = call'[p].response
           /\ call'[p].invocations = call[p].invocations
      /\ (call[p].op = "retryOrThrow" /\ call[p].pc = "resolved") =>
           call'[p].invocations <= call[p].invocations

\* C5: when an attempt of the wrapped function succeeds, retryOrThrow
\* resolves with exactly the value that attempt returned, and the wrapped
\* function is not invoked again for that call.
C5_ResolvesWithAttemptValue == [][C5Step]_vars

\* C5 witness: the third attempt succeeded after two retryable failures and
\* its value is the result.
C5_Witness ==
    \E p \in Callers :
      /\ call[p].op = "retryOrThrow"
      /\ call[p].pc = "resolved"
      /\ call[p].invocations = 3
      /\ call[p].lastError = Some(ApiError(500))
      /\ call[p].response = Some("order2")
      /\ call[p].result = Some("order2")

-----------------------------------------------------------------------------
(* Properties of accumulateCatalogOrThrow                                  *)

LastPage(c) == c.pages[Len(c.pages)]

C6State ==
    \A p \in Callers :
      call[p].op = "accumulateCatalogOrThrow" =>
        \* a page request is outstanding only for the first page or after a
        \* response with a defined cursor
        /\ call[p].pc \in {"inflight", "backoff"} =>
             (call[p].pages = <<>> \/ LastPage(call[p]).cursor # None)
        \* it returned only on a response with an undefined cursor
        /\ call[p].pc = "resolved" =>
             (call[p].pages # <<>> /\ LastPage(call[p]).cursor = None)
        \* every earlier response carried a cursor: it stopped at the first without
        /\ \A i \in 1..(Len(call[p].pages) - 1) : call[p].pages[i].cursor # None
        \* after a response with a defined cursor it goes on (or a fetch failed)
        /\ (call[p].pages # <<>> /\ LastPage(call[p]).cursor # None) =>
             call[p].pc \in {"inflight", "backoff", "rejected"}

AccumulateRunning(p) ==
    call[p].op = "accumulateCatalogOrThrow" /\ call[p].pc \in {"inflight", "backoff"}

\* C6: accumulateCatalogOrThrow requests another page exactly when the most
\* recent listCatalog response carries a defined cursor and returns as soon
\* as a response has none; with a vendor that eventually serves a page
\* without cursor, every accumulateCatalogOrThrow in progress ends.
C6_PagingFollowsCursorAndEnds ==
    /\ []C6State
    /\ \A p \in Callers : AccumulateRunning(p) ~> ~AccumulateRunning(p)

\* C6 witness: two pages with cursors (one of them the empty string) were
\* followed, the third had none, and the operation returned.
C6_Witness ==
    \E p \in Callers :
      /\ call[p].op = "accumulateCatalogOrThrow"
      /\ call[p].pc = "resolved"
      /\ Len(call[p].pages) = 3
      /\ call[p].pages[1].cursor = Some("")
      /\ call[p].pages[2].cursor = Some("c1")

\* The objects of pages, in order.
RECURSIVE AllObjects(_)
AllObjects(pages) ==
    IF pages = <<>> THEN <<>>
    ELSE (IF pages[1].objects = None THEN <<>> ELSE pages[1].objects[1])
           \o AllObjects(Tail(pages))

CommaJoined(types) ==
    IF types = <<"ITEM">> THEN "ITEM"
    ELSE IF types = <<"ITEM", "CATEGORY">> THEN "ITEM,CATEGORY"
    ELSE "?"

\* C7: every listCatalog call of accumulateCatalogOrThrow carries the cursor
\* of the immediately preceding response (none for the first call) and the
\* comma-joined types, and the value returned is the in-order concatenation
\* of the objects of every page, a page without objects contributing nothing.
C7_ReturnsConcatenationOfPages ==
    \A p \in Callers :
      call[p].op = "accumulateCatalogOrThrow" =>
        /\ call[p].pc = "inflight" =>
             /\ call[p].request[1].api = "listCatalog"
             /\ call[p].request[1].args[1] =
                  (IF call[p].pages = <<>> THEN None ELSE LastPage(call[p]).cursor)
             /\ call[p].request[1].args[2] = CommaJoined(call[p].params.types)
        /\ call[p].pc = "resolved" =>
             call[p].result = Some(AllObjects(call[p].pages))

\* C7 witness: three pages, the middle one without objects, returned in order.
C7_Witness ==
    \E p \in Callers :
      /\ call[p].op = "accumulateCatalogOrThrow"
      /\ call[p].pc = "resolved"
      /\ call[p].params.types = <<"ITEM", "CATEGORY">>
      /\ Len(call[p].pages) = 3
      /\ call[p].pages[1].objects = Some(<<"b", "c">>)
      /\ call[p].pages[2].objects = None
      /\ call[p].pages[3].objects = Some(<<"a">>)
      /\ call[p].result = Some(<<"b", "c", "a">>)

-----------------------------------------------------------------------------
(* Properties of configuration and registration                            *)

MissingEnv == {n \in EnvNames : env[n] = None}

\* C8: the NestSquareConfig factory throws when any of the three SQUARE_*
\* variables is missing, and otherwise returns the record made of
\* SQUARE_CLIENT_ENVIRONMENT, SQUARE_OAUTH_CLIENT_ID and
\* SQUARE_OAUTH_CLIENT_SECRET.
C8_FactoryThrowsOrReturnsEnv ==
    NestSquareConfigKey \in DOMAIN providers =>
      /\ bootError = Some("config validation error") => MissingEnv # {}
      /\ providers[NestSquareConfigKey] # None =>
           /\ MissingEnv = {}
           /\ providers[NestSquareConfigKey][1].clientEnvironment
                = env["SQUARE_CLIENT_ENVIRONMENT"][1]
           /\ providers[NestSquareConfigKey][1].oauthClientId
                = env["SQUARE_OAUTH_CLIENT_ID"][1]
           /\ providers[NestSquareConfigKey][1].oauthClientSecret
                = env["SQUARE_OAUTH_CLIENT_SECRET"][1]

\* C8 witness: the factory ran with only SQUARE_OAUTH_CLIENT_ID missing and
\* threw.
C8_Witness ==
    /\ mode = "fromEnv"
    /\ bootError = Some("config validation error")
    /\ MissingEnv = {"SQUARE_OAUTH_CLIENT_ID"}

\* C9 as stated: the configuration record held by the service consists of
\* three non-empty strings.
C9_ConfigNonEmptyStrings ==
    config # None =>
      /\ config[1].clientEnvironment # ""
      /\ config[1].oauthClientId # ""
      /\ config[1].oauthClientSecret # ""

\* C9 amended: the configuration record held by the service consists of the
\* three strings supplied at registration, any of which may be empty.
C9_ConfigIsSuppliedStrings ==
    config # None =>
      /\ DOMAIN config[1] = {"clientEnvironment", "oauthClientId", "oauthClientSecret"}
      /\ config[1].clientEnvironment = options.clientEnvironment
      /\ config[1].oauthClientId = options.oauthClientId
      /\ config[1].oauthClientSecret = options.oauthClientSecret

\* C9 witness: a service constructed through forRootAsync holds the supplied
\* record, whose client id is the empty string.
C9_Witness ==
    /\ mode = "forRootAsync"
    /\ bootPc = "ready"
    /\ config = Some([clientEnvironment |-> "sandbox", oauthClientId |-> "",
                      oauthClientSecret |-> "sandbox"])

\* C10: in each registration mode the dynamic module registers a provider for
\* the token the NestSquareService constructor injects, so the service can be
\* instantiated.
C10_InjectTokenProvided ==
    bootPc # "start" =>
      /\ ServiceInjectToken \in DOMAIN providers
      /\ bootError # Some("unresolved dependency")

\* C11: forRoot and forRootAsync never run the environment validation: their
\* dynamic module holds no provider of the environment configuration, the
\* bootstrap never fails whatever the SQUARE_* variables are, and the service
\* is constructed with the supplied options; only fromEnv registers the
\* environment-validated configuration.
C11_OnlyFromEnvValidatesEnv ==
    /\ (mode \in {"forRoot", "forRootAsync"} /\ bootPc # "start") =>
         /\ NestSquareConfigKey \notin DOMAIN providers
         /\ bootPc # "failed"
         /\ bootError = None
         /\ bootPc = "ready" => config = Some(options)
    /\ (mode = "fromEnv" /\ bootPc # "start") =>
         NestSquareConfigKey \in DOMAIN providers

\* C11 witness: forRoot with no SQUARE_* variable set; the service was
\* constructed with the options.
C11_Witness ==
    /\ mode = "forRoot"
    /\ env = [n \in EnvNames |-> None]
    /\ bootPc = "ready"
    /\ config = Some(options)
    /\ options.clientEnvironment = "sandbox"

-----------------------------------------------------------------------------
(* Properties of the service as a whole                                    *)

\* The configuration record is the one supplied at registration and every
\* client built so far carries its clientEnvironment.
C12State ==
    /\ config = Some(options)
    /\ \A p \in AllCallers :
         /\ call[p].request # None =>
              call[p].request[1].client.environment = options.clientEnvironment
         /\ call[p].client # None =>
              call[p].client[1].environment = options.clientEnvironment
         /\ call[p].op = "client" =>
              call[p].result[1].environment = options.clientEnvironment

\* C12: no sequence of service operations, failed, retried or interleaved
\* between two callers, changes the configuration record: it stays the value
\* supplied at registration, and every client is built with that
\* clientEnvironment.
C12_ConfigNeverChanges ==
    /\ []C12State
    /\ [][config' = config /\ options' = options]_vars

\* C12 witness: while one caller's upload waits to be retried after a 500,
\* the other caller's catalog listing has failed; both were sent with the
\* configured environment.
C12_Witness ==
    /\ config[1].clientEnvironment = "sandbox"
    /\ call[1].op = "uploadCatalogImageOrThrow"
    /\ call[1].pc = "backoff"
    /\ call[1].lastError = Some(ApiError(500))
    /\ call[1].request[1].client.environment = "sandbox"
    /\ call[2].op = "accumulateCatalogOrThrow"
    /\ call[2].pc = "rejected"
    /\ Len(call[2].pages) = 1
    /\ call[2].request[1].client.environment = "sandbox"

\* C13: every attempt of createCatalogImage made by
\* uploadCatalogImageOrThrow, each retry included, sends the complete bytes
\* of file.buffer as the image payload.
C13_EveryAttemptSendsFile ==
    \A p \in Callers :
      (call[p].op = "uploadCatalogImageOrThrow" /\ call[p].request # None) =>
        call[p].request[1].args.body = call[p].params.file.buffer

\* The attempt that just settled failed with error kind in kinds.
LastFailureIs(p, kinds) ==
    call[p].lastError # None /\ call[p].lastError[1].type \in kinds

====
